---------------------------- MODULE Spec2Model ----------------------------
(***************************************************************************)
(* A model of the command-execution primitive of Rust-ADB (src/src/lib.rs) *)
(* and of the operations built on it.                                      *)
(*                                                                         *)
(* Time is a global millisecond clock `now`.  A task that waits (for a     *)
(* spawned process, for a timeout, for a backoff sleep) records the time   *)
(* of its next event in `wake`; Tick advances the clock to the earliest    *)
(* pending event.                                                          *)
(*                                                                         *)
(* run_adb / run_adb_async hand their closure to backoff::retry /          *)
(* backoff::future::retry (lib.rs:82, lib.rs:101) with a clone of the      *)
(* ExponentialBackoff configured in ADB::new (lib.rs:38-39).  The retry    *)
(* loop and ExponentialBackoff::next_backoff are written out here as the   *)
(* backoff crate defines them: reset, run the operation, on a (transient)  *)
(* error ask next_backoff for an interval, sleep, repeat; give up with     *)
(* the current error when next_backoff yields None.  Every error of the    *)
(* closure is a transient one (From<E> for backoff::Error<E>), and         *)
(* next_backoff is the one of backoff 0.4: None when the elapsed time      *)
(* exceeds max_elapsed_time or the drawn interval would overrun it.        *)
(***************************************************************************)
EXTENDS Integers, Sequences, FiniteSets, TLC

\* ------------------------------------------------------------------ bounds
MaxCalls == 2        \* calls a task makes one after the other
RandomSteps == 1     \* sample points of the randomized backoff interval
MaxAttempts == 6     \* cap on the attempts of one call (never binding)
ScriptLen == 2        \* length of a script of tool responses
WorkflowLen == 2      \* steps of a workflow, at most
MaxTokens == 12       \* tokens on a line of /proc/net/dev, at most

\* --------------------------------------------------------------- constants
INITIAL_INTERVAL_MILLIS == 500     \* ExponentialBackoff::default()
MAX_INTERVAL_MILLIS == 60000       \* ExponentialBackoff::default()

Tasks == {"t1", "t2"}
Never == 0 - 1
Timeouts == {0, 1000}              \* values of ADB::new's timeout argument
ProcDurations == {200, 1500}    \* run time of a process that exits
StdErrs == {"e1", "e2"}

Min(S) == CHOOSE x \in S : \A y \in S : x <= y

\* ------------------------------------------------------------------ errors
\* ADBError values: a category (the enum variant) and its payload.
NoErr == [cat |-> "none", msg |-> <<>>]
IOError(m) == [cat |-> "IO", msg |-> <<m>>]
CommandFailed(m) == [cat |-> "CommandFailed", msg |-> m]

\* #[error("...")] Display of an ADBError.
Display(e) ==
    CASE e.cat = "IO" -> <<"IO error: ">> \o e.msg
      [] e.cat = "CommandFailed" -> <<"Command failed: ">> \o e.msg
      [] e.cat = "Timeout" -> <<"Timeout error: ">> \o e.msg
      [] OTHER -> e.msg

NoResult == [kind |-> "none", out |-> <<>>, err |-> NoErr]
Ok(s) == [kind |-> "Ok", out |-> s, err |-> NoErr]
Err(e) == [kind |-> "Err", out |-> <<>>, err |-> e]

\* --------------------------------------------------------------- processes
\* Text is a sequence of lines, a line a sequence of words.
Header == <<"List", "of", "devices", "attached">>

\* The commands enable_wireless_debugging issues after `devices -l`.
TcpipCmd == "tcpip 5555"
Interfaces == <<"wlan0", "eth0", "wifi0">>
IpAddrShow == <<"ip addr show wlan0", "ip addr show eth0", "ip addr show wifi0">>
GetpropCmd == "getprop service.adb.tcp.port"
IpAddrCmds == {IpAddrShow[i] : i \in 1..Len(IpAddrShow)}
DeviceCommands == {TcpipCmd, GetpropCmd} \cup IpAddrCmds

\* format!("-s {} {}", device, command) of execute_batch_commands.
DeviceArg(device, command) ==
    CASE device = "SER1" /\ command = "c1" -> "-s SER1 c1"
      [] device = "SER1" /\ command = "c2" -> "-s SER1 c2"
      [] OTHER -> "-s"

\* The commands of workflow steps.
WorkflowCommands == {"c1", "c2"} \cup {DeviceArg("SER1", c) : c \in {"c1", "c2"}}

StdOuts(cmd) ==
    CASE cmd = "connect" -> {<<<<"connected", "to", "host">>>>,
                             <<<<"failed", "to", "connect">>>>}
      [] cmd = "devices" -> {<<Header, <<"SER1", "device">>>>,
                             <<Header, <<"SER2", "device">>, <<>>>>}
      [] cmd = TcpipCmd -> {<<<<"restarting", "in", "TCP", "mode", "port:", "5555">>>>,
                            <<<<"error:", "device", "offline">>>>}
      [] cmd \in IpAddrCmds ->
             {<<<<"2:", "wlan0:">>, <<"inet", "192.168.1.5/24", "brd">>>>,
              <<<<"inet", "127.0.0.1/8", "scope">>, <<"inet", "10.0.0.7/8", "brd">>>>,
              <<<<"inet", "127.0.0.1/8", "scope">>, <<"inet6", "fe80::1/64">>>>}
      [] cmd = GetpropCmd -> {<<<<"5555">>>>, <<<<>>>>}
      [] OTHER -> {<<<<"out">>>>}

\* Run times and error texts of a command's process.
Durations(cmd) ==
    IF cmd \in DeviceCommands \cup WorkflowCommands THEN {Min(ProcDurations)} ELSE ProcDurations
StdErrsOf(cmd) ==
    IF cmd \in DeviceCommands \cup WorkflowCommands THEN {"e1"} ELSE StdErrs

NoProc == [kind |-> "none", dur |-> 0, out |-> <<>>, errout |-> ""]

\* The invocations that do not end in an exit status: the spawn fails or the
\* process never exits (the commands of workflow steps always exit).
NoExit(cmd) ==
    IF cmd \in WorkflowCommands THEN {}
    ELSE {[kind |-> "spawn_error", dur |-> 0, out |-> <<>>, errout |-> ""],
          [kind |-> "hang", dur |-> Never, out |-> <<>>, errout |-> ""]}

\* What the external binary does on one invocation of a command.
ProcBehaviours(cmd) ==
    NoExit(cmd)
    \cup {[kind |-> "exit_ok", dur |-> d, out |-> o, errout |-> ""] :
             d \in Durations(cmd), o \in StdOuts(cmd)}
    \cup {[kind |-> "exit_fail", dur |-> d, out |-> <<>>, errout |-> e] :
             d \in Durations(cmd), e \in StdErrsOf(cmd)}

\* exec_shell: Command::output() blocks until the process exits; `wait` is
\* the time the call takes (Never: it does not return).
ExecShell(beh) ==
    CASE beh.kind = "spawn_error" ->
            [wait |-> 0, status |-> "io_error", err |-> IOError("spawn failed")]
      [] beh.kind = "hang" -> [wait |-> Never, status |-> "blocked", err |-> NoErr]
      [] OTHER -> [wait |-> beh.dur, status |-> "output", err |-> NoErr]

\* ExecShellAsync without the timeout around output().
ExecShellAsyncUnbounded(timeout, beh) == ExecShell(beh)

\* exec_shell_async: tokio timeout(self.timeout, output()).
ExecShellAsync(timeout, beh) ==
    CASE beh.kind = "spawn_error" ->
            [wait |-> 0, status |-> "io_error", err |-> IOError("spawn failed")]
      [] beh.kind # "hang" /\ beh.dur <= timeout ->
            [wait |-> beh.dur, status |-> "output", err |-> NoErr]
      [] OTHER ->
            [wait |-> timeout, status |-> "io_error", err |-> IOError("Command timed out")]

Exec(mode, timeout, beh) ==
    IF mode = "sync" THEN ExecShell(beh) ELSE ExecShellAsync(timeout, beh)

\* Operation, returning the error stream's text in place of the output.
OperationStderr(mode, timeout, beh) ==
    LET x == Exec(mode, timeout, beh) IN
    IF x.status # "output" THEN Err(x.err)
    ELSE IF beh.kind = "exit_ok" THEN Ok(<<<<beh.errout>>>>)
    ELSE Err(CommandFailed(<<beh.errout>>))

\* The closure `operation` of run_adb / run_adb_async: `?` turns the
\* io::Error into ADBError::IO, an unsuccessful exit status gives
\* CommandFailed(stderr), a successful one the standard output.
Operation(mode, timeout, beh) ==
    LET x == Exec(mode, timeout, beh) IN
    IF x.status # "output" THEN Err(x.err)
    ELSE IF beh.kind = "exit_ok" THEN Ok(beh.out)
    ELSE Err(CommandFailed(<<beh.errout>>))

\* The Err arm of the match on the retry's result.
FinalError(mode, e) ==
    CommandFailed(<<IF mode = "sync" THEN "Command failed after retries: "
                    ELSE "Async command failed after retries: ">> \o Display(e))

\* ------------------------------------------------------ ExponentialBackoff
\* ADB::new: ExponentialBackoff::default() with max_elapsed_time = timeout.
NewBackoff(timeout, t) ==
    [current_interval |-> INITIAL_INTERVAL_MILLIS,
     start_time |-> t,
     max_elapsed_time |-> timeout]

\* Reset, left out: the clone keeps the state of the instance's backoff.
ResetSkipped(b, t) == b

\* Backoff::reset, called by retry on the clone before the first attempt.
Reset(b, t) ==
    [b EXCEPT !.current_interval = INITIAL_INTERVAL_MILLIS, !.start_time = t]

\* increment_current_interval: multiplier 1.5, capped at max_interval.
IncrementCurrentInterval(cur) ==
    IF 3 * cur >= 2 * MAX_INTERVAL_MILLIS
    THEN MAX_INTERVAL_MILLIS
    ELSE (cur * 3) \div 2

\* get_random_value_from_interval, randomization_factor 0.5; r samples the
\* random number.
RandomizedInterval(cur, r) ==
    LET delta == cur \div 2
        lo == cur - delta
        hi == cur + delta
    IN lo + (r * (hi - lo)) \div RandomSteps

\* NextBackoff with max_elapsed_time unset: an interval every time.
NextBackoffNoBudget(b, t, r) ==
    [next |-> RandomizedInterval(b.current_interval, r),
     bo |-> [b EXCEPT !.current_interval = IncrementCurrentInterval(b.current_interval)]]

\* next_backoff: None (Never) once the elapsed time exceeds max_elapsed_time
\* or the interval would overrun it.
NextBackoff(b, t, r) ==
    LET elapsed == t - b.start_time IN
    IF elapsed > b.max_elapsed_time
    THEN [next |-> Never, bo |-> b]
    ELSE LET iv == RandomizedInterval(b.current_interval, r)
             nb == [b EXCEPT !.current_interval = IncrementCurrentInterval(b.current_interval)]
         IN IF elapsed + iv <= b.max_elapsed_time
            THEN [next |-> iv, bo |-> nb]
            ELSE [next |-> Never, bo |-> nb]

\* ------------------------------------------------------------ text parsing
\* str::contains for the needles the operations use: a word contains the
\* needle when it is the needle or has it as a proper substring.
ProperSubstrings == {<<"disconnected", "connected">>, <<"127.0.0.1/8", "127.0.0.1">>}
Contains(out, needle) ==
    \E i \in 1..Len(out) : \E j \in 1..Len(out[i]) :
        out[i][j] = needle \/ <<out[i][j], needle>> \in ProperSubstrings

\* str::contains for a needle of several words separated by single blanks.
ContainsPhrase(out, phrase) ==
    \E i \in 1..Len(out) : \E k \in 1..(Len(out[i]) - Len(phrase) + 1) :
        SubSeq(out[i], k, k + Len(phrase) - 1) = phrase

\* line.contains("inet "): the word inet followed by a blank.
HasInet(line) == \E j \in 1..(Len(line) - 1) : line[j] = "inet"

\* addr.split('/').next(): the text before the first slash.
BeforeSlash(w) ==
    CASE w = "192.168.1.5/24" -> "192.168.1.5"
      [] w = "10.0.0.7/8" -> "10.0.0.7"
      [] w = "127.0.0.1/8" -> "127.0.0.1"
      [] w = "fe80::1/64" -> "fe80::1"
      [] OTHER -> w

NoAddr == [some |-> FALSE, addr |-> ""]

\* The address in the text of `ip addr show`: the first line with "inet "
\* and without "127.0.0.1", its second word, up to the slash.
FindAddr(out) ==
    LET hits == {i \in 1..Len(out) : HasInet(out[i]) /\ ~Contains(<<out[i]>>, "127.0.0.1")} IN
    IF hits = {} THEN NoAddr
    ELSE [some |-> TRUE, addr |-> BeforeSlash(out[Min(hits)][2])]

\* parse_device_line: None for fewer than two whitespace-separated parts.
ParseDeviceLine(line) ==
    IF Len(line) < 2 THEN [some |-> FALSE, serial |-> "", state |-> ""]
    ELSE [some |-> TRUE, serial |-> line[1], state |-> line[2]]

\* refresh_device_list on the text of `devices -l`: skip the header line and
\* blank lines, keep the lines that parse; here the serials found.
Serials(out) ==
    {ParseDeviceLine(out[i]).serial :
        i \in {k \in 2..Len(out) : Len(out[k]) > 0 /\ ParseDeviceLine(out[k]).some}}

\* ------------------------------------------------------------------- state
VARIABLES
    adb,      \* the ADB instance: bin, timeout, backoff
    now,      \* the clock, in milliseconds
    call,     \* per task: the run_adb / run_adb_async call in progress
    procs,    \* per task: the processes spawned by its current call
    op,       \* per task: the operation (built on run_adb) in progress
    left,     \* per task: calls or operations still to make
    tool      \* the external binary: what its next invocations will do

vars == <<adb, now, call, procs, op, left, tool>>

\* The external tool is free to behave in any way on every invocation
\* (an empty script), or follows a script: the i-th invocation by a task
\* behaves as the script's i-th entry, the last entry from then on.
FreeTool == [script |-> <<>>, pos |-> [t \in Tasks |-> 0]]

ToolBehaviours(t, cmd) ==
    IF tool.script = <<>> THEN ProcBehaviours(cmd)
    ELSE {tool.script[Min({tool.pos[t] + 1, Len(tool.script)})]}

Invoked(t) ==
    IF tool.script = <<>> THEN tool
    ELSE [tool EXCEPT !.pos[t] = Min({tool.pos[t] + 1, Len(tool.script)})]

IdleCall ==
    [pc |-> "idle", mode |-> "sync", cmd |-> "cmd", bo |-> NewBackoff(0, 0),
     attempts |-> 0, cur |-> NoProc, wake |-> Never, t0 |-> 0, astart |-> 0,
     iv |-> 0, result |-> NoResult]

IdleOp ==
    [name |-> "none", pc |-> "none", attempt |-> 0, start_time |-> 0,
     timeout |-> 0, device |-> "", wake |-> Never, issued |-> 0,
     reissued_after |-> {}, result |-> NoResult, log |-> <<>>, ip |-> "",
     wf |-> <<>>, net |-> <<>>]

NewADB(to) == [bin |-> "adb", timeout |-> to, backoff |-> NewBackoff(to, 0)]

Init ==
    /\ \E to \in Timeouts : adb = NewADB(to)
    /\ now = 0
    /\ call = [t \in Tasks |-> IdleCall]
    /\ procs = [t \in Tasks |-> {}]
    /\ op = [t \in Tasks |-> IdleOp]
    /\ left = [t \in Tasks |-> IF t = "t1" THEN MaxCalls ELSE 0]
    /\ tool = FreeTool

\* One attempt of the retry loop starts: the closure spawns the process.
SpawnAttempt(c, beh) ==
    LET w == Exec(c.mode, adb.timeout, beh).wait IN
    [c EXCEPT !.pc = "wait", !.attempts = c.attempts + 1, !.cur = beh,
              !.astart = now, !.iv = 0,
              !.wake = IF w = Never THEN Never ELSE now + w]

\* The process an attempt spawns, with the time it exits (Never: it hangs).
ProcOf(beh) ==
    IF beh.kind = "spawn_error" THEN {}
    ELSE {IF beh.dur = Never THEN [id |-> now, exit |-> Never]
          ELSE [id |-> now, exit |-> now + beh.dur]}

Alive(p) == p.exit = Never \/ now < p.exit

\* run_adb / run_adb_async starts: retry resets the clone of self.backoff
\* and runs the operation for the first time.
BeginCall(t, mode, cmd) ==
    \E beh \in ToolBehaviours(t, cmd) :
        /\ call' = [call EXCEPT ![t] =
              SpawnAttempt([IdleCall EXCEPT !.mode = mode, !.cmd = cmd, !.t0 = now,
                                            !.bo = Reset(adb.backoff, now)], beh)]
        /\ procs' = [procs EXCEPT ![t] = ProcOf(beh)]
        /\ tool' = Invoked(t)

CanInvoke(t) ==
    /\ call[t].pc \in {"idle", "ret"}
    /\ op[t].pc \in {"none", "done"}
    /\ left[t] > 0

\* A caller calls run_adb.
RunAdb(t) ==
    /\ CanInvoke(t)
    /\ BeginCall(t, "sync", "cmd")
    /\ op' = [op EXCEPT ![t] = IdleOp]
    /\ left' = [left EXCEPT ![t] = left[t] - 1]
    /\ UNCHANGED <<adb, now>>

\* A caller calls run_adb_async.
RunAdbAsync(t) ==
    /\ CanInvoke(t)
    /\ BeginCall(t, "async", "cmd")
    /\ op' = [op EXCEPT ![t] = IdleOp]
    /\ left' = [left EXCEPT ![t] = left[t] - 1]
    /\ UNCHANGED <<adb, now>>

Due(t) == call[t].wake = now

\* The attempt's operation returned Ok: retry returns it, run_adb returns Ok.
AttemptOk(t) ==
    /\ call[t].pc = "wait" /\ Due(t)
    /\ LET r == Operation(call[t].mode, adb.timeout, call[t].cur) IN
          /\ r.kind = "Ok"
          /\ call' = [call EXCEPT ![t].pc = "ret", ![t].result = r, ![t].wake = Never]
    /\ UNCHANGED <<adb, now, procs, op, left, tool>>

\* The operation returned Err and next_backoff gave an interval: sleep.
AttemptRetry(t) ==
    /\ call[t].pc = "wait" /\ Due(t)
    /\ LET r == Operation(call[t].mode, adb.timeout, call[t].cur) IN
          /\ r.kind = "Err"
          /\ \E rnd \in 0..RandomSteps :
                LET nb == NextBackoff(call[t].bo, now, rnd) IN
                /\ nb.next # Never
                /\ call' = [call EXCEPT ![t].pc = "sleep", ![t].bo = nb.bo,
                                        ![t].iv = nb.next,
                                        ![t].wake = now + nb.next]
    /\ UNCHANGED <<adb, now, procs, op, left, tool>>

\* The operation returned Err and next_backoff gave None: retry returns the
\* error, run_adb wraps it.
AttemptGiveUp(t) ==
    /\ call[t].pc = "wait" /\ Due(t)
    /\ LET r == Operation(call[t].mode, adb.timeout, call[t].cur) IN
          /\ r.kind = "Err"
          /\ \E rnd \in 0..RandomSteps :
                LET nb == NextBackoff(call[t].bo, now, rnd) IN
                /\ nb.next = Never
                /\ call' = [call EXCEPT ![t].pc = "ret", ![t].bo = nb.bo,
                                        ![t].result = Err(FinalError(call[t].mode, r.err)),
                                        ![t].wake = Never]
    /\ UNCHANGED <<adb, now, procs, op, left, tool>>

\* The backoff sleep is over: the next attempt.
SleepEnd(t) ==
    /\ call[t].pc = "sleep" /\ Due(t)
    /\ call[t].attempts < MaxAttempts
    /\ \E beh \in ToolBehaviours(t, call[t].cmd) :
          /\ call' = [call EXCEPT ![t] = SpawnAttempt(call[t], beh)]
          /\ procs' = [procs EXCEPT ![t] = procs[t] \cup ProcOf(beh)]
          /\ tool' = Invoked(t)
    /\ UNCHANGED <<adb, now, op, left>>

\* -------------------------------------------------- operations on run_adb
MAX_RETRIES == 5                   \* connect_wireless
RETRY_DELAY_MS == 2000             \* connect_wireless
CONNECTION_TIMEOUT_MS == 10000     \* connect_wireless
POLL_DELAY_MS == 1000              \* wait_for_device: sleep(from_secs(1))
WaitTimeouts == {0, 1500}          \* values of wait_for_device's timeout
Devices == {"SER1"}                \* values of wait_for_device's device

ErrorOf(cat, m) == [cat |-> cat, msg |-> <<m>>]

\* An operation issues a command through run_adb / run_adb_async.
Issue(t, o, mode, cmd) ==
    /\ BeginCall(t, mode, cmd)
    /\ op' = [op EXCEPT ![t] =
          [o EXCEPT !.pc = "call", !.wake = Never, !.issued = o.issued + 1,
                    !.reissued_after =
                        IF o.issued = 0 THEN {} ELSE o.reissued_after \cup {call[t].result.kind}]]

Return(t, r) ==
    /\ op' = [op EXCEPT ![t].pc = "done", ![t].wake = Never, ![t].result = r]
    /\ UNCHANGED <<call, procs, tool>>

Returned(t, name) ==
    /\ op[t].name = name /\ op[t].pc = "call" /\ call[t].pc = "ret"

\* ConnectWirelessStep, treating an error of run_adb like a failed attempt.
ConnectWirelessStepRetryOnErr(res, attempt, elapsed) ==
    IF res.kind = "Ok" /\ Contains(res.out, "connected")
    THEN [act |-> "return", result |-> Ok(<<>>)]
    ELSE IF elapsed > CONNECTION_TIMEOUT_MS
         THEN [act |-> "return", result |-> Err(ErrorOf("ConnectionTimeout", "Connection timeout"))]
    ELSE IF attempt < MAX_RETRIES THEN [act |-> "sleep", result |-> NoResult]
    ELSE [act |-> "return", result |-> Err(ErrorOf("ConnectionRetry", "Failed to connect"))]

\* ConnectWirelessStep with the retry bound off by one.
ConnectWirelessStepOffByOne(res, attempt, elapsed) ==
    IF res.kind = "Err" THEN [act |-> "return", result |-> Err(res.err)]
    ELSE IF Contains(res.out, "connected") THEN [act |-> "return", result |-> Ok(<<>>)]
    ELSE IF elapsed > CONNECTION_TIMEOUT_MS
         THEN [act |-> "return", result |-> Err(ErrorOf("ConnectionTimeout", "Connection timeout"))]
    ELSE IF attempt <= MAX_RETRIES THEN [act |-> "sleep", result |-> NoResult]
    ELSE [act |-> "return", result |-> Err(ErrorOf("ConnectionRetry", "Failed to connect"))]

\* connect_wireless, one pass of the loop body after run_adb returned:
\* what the loop does with the result of attempt number `attempt`.
ConnectWirelessStep(res, attempt, elapsed) ==
    IF res.kind = "Err" THEN [act |-> "return", result |-> Err(res.err)]
    ELSE IF Contains(res.out, "connected") THEN [act |-> "return", result |-> Ok(<<>>)]
    ELSE IF elapsed > CONNECTION_TIMEOUT_MS
         THEN [act |-> "return", result |-> Err(ErrorOf("ConnectionTimeout", "Connection timeout"))]
    ELSE IF attempt < MAX_RETRIES THEN [act |-> "sleep", result |-> NoResult]
    ELSE [act |-> "return", result |-> Err(ErrorOf("ConnectionRetry", "Failed to connect"))]

\* connect_wireless is called: start_time, first attempt.
ConnectWireless(t) ==
    /\ CanInvoke(t)
    /\ Issue(t, [IdleOp EXCEPT !.name = "connect_wireless", !.attempt = 1,
                               !.start_time = now], "sync", "connect")
    /\ left' = [left EXCEPT ![t] = left[t] - 1]
    /\ UNCHANGED <<adb, now>>

\* connect_wireless returns: Ok, the error of run_adb, ConnectionTimeout,
\* or ConnectionRetry after the last attempt.
ConnectWirelessReturn(t) ==
    /\ Returned(t, "connect_wireless")
    /\ LET d == ConnectWirelessStep(call[t].result, op[t].attempt, now - op[t].start_time) IN
          /\ d.act = "return"
          /\ Return(t, d.result)
    /\ UNCHANGED <<adb, now, left>>

\* connect_wireless sleeps before the next attempt.
ConnectWirelessSleep(t) ==
    /\ Returned(t, "connect_wireless")
    /\ LET d == ConnectWirelessStep(call[t].result, op[t].attempt, now - op[t].start_time) IN
          /\ d.act = "sleep"
          /\ op' = [op EXCEPT ![t].pc = "sleep", ![t].wake = now + RETRY_DELAY_MS]
    /\ UNCHANGED <<adb, now, call, procs, left, tool>>

\* connect_wireless: the sleep is over, the next attempt.
ConnectWirelessNext(t) ==
    /\ op[t].name = "connect_wireless" /\ op[t].pc = "sleep" /\ op[t].wake = now
    /\ Issue(t, [op[t] EXCEPT !.attempt = op[t].attempt + 1], "sync", "connect")
    /\ UNCHANGED <<adb, now, left>>

\* connect_wireless_async is called.
ConnectWirelessAsync(t) ==
    /\ CanInvoke(t)
    /\ Issue(t, [IdleOp EXCEPT !.name = "connect_wireless_async", !.attempt = 1,
                               !.start_time = now], "async", "connect")
    /\ left' = [left EXCEPT ![t] = left[t] - 1]
    /\ UNCHANGED <<adb, now>>

\* connect_wireless_async, after run_adb_async returned.
ConnectWirelessAsyncResult(res) ==
    IF res.kind = "Err" THEN Err(res.err)
    ELSE IF ~Contains(res.out, "connected")
         THEN Err([cat |-> "WirelessConnection", msg |-> res.out[1]])
    ELSE Ok(<<>>)

ConnectWirelessAsyncReturn(t) ==
    /\ Returned(t, "connect_wireless_async")
    /\ Return(t, ConnectWirelessAsyncResult(call[t].result))
    /\ UNCHANGED <<adb, now, left>>

\* WaitLoopContinues, the deadline itself still inside the loop.
WaitLoopContinuesInclusive(elapsed, timeout) == elapsed <= timeout

\* wait_for_device / wait_for_device_async: the loop condition.
WaitLoopContinues(elapsed, timeout) == elapsed < timeout

TimeoutError == ErrorOf("Timeout", "Device not found")

WaitMode(name) == IF name = "wait_for_device" THEN "sync" ELSE "async"

\* The head of the while loop: poll the device list or return Timeout.
WaitLoop(t, o) ==
    IF WaitLoopContinues(now - o.start_time, o.timeout)
    THEN Issue(t, o, WaitMode(o.name), "devices")
    ELSE /\ op' = [op EXCEPT ![t] = [o EXCEPT !.pc = "done", !.wake = Never,
                                               !.result = Err(TimeoutError)]]
         /\ UNCHANGED <<call, procs, tool>>

\* wait_for_device is called.
WaitForDevice(t) ==
    /\ CanInvoke(t)
    /\ \E to \in WaitTimeouts, d \in Devices :
          WaitLoop(t, [IdleOp EXCEPT !.name = "wait_for_device", !.start_time = now,
                                     !.timeout = to, !.device = d])
    /\ left' = [left EXCEPT ![t] = left[t] - 1]
    /\ UNCHANGED <<adb, now>>

\* wait_for_device_async is called.
WaitForDeviceAsync(t) ==
    /\ CanInvoke(t)
    /\ \E to \in WaitTimeouts, d \in Devices :
          WaitLoop(t, [IdleOp EXCEPT !.name = "wait_for_device_async", !.start_time = now,
                                     !.timeout = to, !.device = d])
    /\ left' = [left EXCEPT ![t] = left[t] - 1]
    /\ UNCHANGED <<adb, now>>

\* WaitForDeviceStep, polling on after a failed device-list command.
WaitForDeviceStepIgnoreErr(res, device) ==
    IF res.kind = "Ok" /\ device \in Serials(res.out)
    THEN [act |-> "return", result |-> Ok(<<>>)]
    ELSE [act |-> "sleep", result |-> NoResult]

\* The loop body after refresh_device_list returned.
WaitForDeviceStep(res, device) ==
    IF res.kind = "Err" THEN [act |-> "return", result |-> Err(res.err)]
    ELSE IF device \in Serials(res.out) THEN [act |-> "return", result |-> Ok(<<>>)]
    ELSE [act |-> "sleep", result |-> NoResult]

IsWait(t) == op[t].name \in {"wait_for_device", "wait_for_device_async"}

\* The device list was fetched: return Ok or the error, or sleep a second.
WaitForDevicePolled(t) ==
    /\ IsWait(t) /\ op[t].pc = "call" /\ call[t].pc = "ret"
    /\ LET d == WaitForDeviceStep(call[t].result, op[t].device) IN
          IF d.act = "return" THEN Return(t, d.result)
          ELSE /\ op' = [op EXCEPT ![t].pc = "sleep", ![t].wake = now + POLL_DELAY_MS]
               /\ UNCHANGED <<call, procs, tool>>
    /\ UNCHANGED <<adb, now, left>>

\* The sleep is over: back to the head of the loop.
WaitForDeviceNext(t) ==
    /\ IsWait(t) /\ op[t].pc = "sleep" /\ op[t].wake = now
    /\ WaitLoop(t, op[t])
    /\ UNCHANGED <<adb, now, left>>

\* --------------------------------------------- enable_wireless_debugging
RESTART_DELAY_MS == 2000           \* sleep(from_secs(2)) after tcpip
TcpModePhrase == <<"restarting", "in", "TCP", "mode">>

IsEnable(t) == op[t].name = "enable_wireless_debugging"

\* The position of an `ip addr show` command in the list of interfaces.
InterfaceOf(cmd) == CHOOSE i \in 1..Len(IpAddrShow) : IpAddrShow[i] = cmd

Proceed(cmd, ip) == [act |-> "issue", cmd |-> cmd, ip |-> ip, result |-> NoResult]
Fail(e) == [act |-> "return", cmd |-> "", ip |-> "", result |-> Err(e)]

\* EnableWirelessStep without the check of the device list.
EnableWirelessStepNoCheck(cmd, res, device, ip) ==
    CASE cmd = "devices" ->
            IF res.kind = "Err" THEN Fail(res.err) ELSE Proceed(TcpipCmd, "")
      [] cmd = TcpipCmd ->
            IF res.kind = "Err" THEN Fail(res.err)
            ELSE IF ~ContainsPhrase(res.out, TcpModePhrase)
                 THEN Fail([cat |-> "WirelessConnection", msg |-> res.out[1]])
            ELSE [act |-> "sleep", cmd |-> "", ip |-> "", result |-> NoResult]
      [] cmd \in IpAddrCmds ->
            LET a == IF res.kind = "Ok" THEN FindAddr(res.out) ELSE NoAddr IN
            IF a.some THEN Proceed(GetpropCmd, a.addr)
            ELSE IF InterfaceOf(cmd) < Len(IpAddrShow)
                 THEN Proceed(IpAddrShow[InterfaceOf(cmd) + 1], "")
            ELSE Fail(ErrorOf("WirelessConnection", "Failed to get device IP"))
      [] OTHER ->
            IF res.kind = "Err" THEN Fail(res.err)
            ELSE IF ~Contains(res.out, "5555")
                 THEN Fail(ErrorOf("WirelessConnection", "TCP/IP mode not active"))
            ELSE [act |-> "return", cmd |-> "", ip |-> "", result |-> Ok(<<<<ip, "5555">>>>)]

\* EnableWirelessStep probing every interface, the last address winning.
EnableWirelessStepProbeAll(cmd, res, device, ip) ==
    CASE cmd = "devices" ->
            IF res.kind = "Err" THEN Fail(res.err)
            ELSE IF device \notin Serials(res.out) THEN Fail(ErrorOf("DeviceNotFound", device))
            ELSE Proceed(TcpipCmd, "")
      [] cmd = TcpipCmd ->
            IF res.kind = "Err" THEN Fail(res.err)
            ELSE IF ~ContainsPhrase(res.out, TcpModePhrase)
                 THEN Fail([cat |-> "WirelessConnection", msg |-> res.out[1]])
            ELSE [act |-> "sleep", cmd |-> "", ip |-> "", result |-> NoResult]
      [] cmd \in IpAddrCmds ->
            LET a == IF res.kind = "Ok" THEN FindAddr(res.out) ELSE NoAddr
                found == IF a.some THEN a.addr ELSE ip IN
            IF InterfaceOf(cmd) < Len(IpAddrShow)
            THEN Proceed(IpAddrShow[InterfaceOf(cmd) + 1], found)
            ELSE IF found # "" THEN Proceed(GetpropCmd, found)
            ELSE Fail(ErrorOf("WirelessConnection", "Failed to get device IP"))
      [] OTHER ->
            IF res.kind = "Err" THEN Fail(res.err)
            ELSE IF ~Contains(res.out, "5555")
                 THEN Fail(ErrorOf("WirelessConnection", "TCP/IP mode not active"))
            ELSE [act |-> "return", cmd |-> "", ip |-> "", result |-> Ok(<<<<ip, "5555">>>>)]

\* enable_wireless_debugging, after the command `cmd` returned `res`: the
\* device check, the tcpip check, the probe of one interface (an error of
\* the probe counts as no address), the check of the port property.
EnableWirelessStep(cmd, res, device, ip) ==
    CASE cmd = "devices" ->
            IF res.kind = "Err" THEN Fail(res.err)
            ELSE IF device \notin Serials(res.out) THEN Fail(ErrorOf("DeviceNotFound", device))
            ELSE Proceed(TcpipCmd, "")
      [] cmd = TcpipCmd ->
            IF res.kind = "Err" THEN Fail(res.err)
            ELSE IF ~ContainsPhrase(res.out, TcpModePhrase)
                 THEN Fail([cat |-> "WirelessConnection", msg |-> res.out[1]])
            ELSE [act |-> "sleep", cmd |-> "", ip |-> "", result |-> NoResult]
      [] cmd \in IpAddrCmds ->
            LET a == IF res.kind = "Ok" THEN FindAddr(res.out) ELSE NoAddr IN
            IF a.some THEN Proceed(GetpropCmd, a.addr)
            ELSE IF InterfaceOf(cmd) < Len(IpAddrShow)
                 THEN Proceed(IpAddrShow[InterfaceOf(cmd) + 1], "")
            ELSE Fail(ErrorOf("WirelessConnection", "Failed to get device IP"))
      [] OTHER ->
            IF res.kind = "Err" THEN Fail(res.err)
            ELSE IF ~Contains(res.out, "5555")
                 THEN Fail(ErrorOf("WirelessConnection", "TCP/IP mode not active"))
            ELSE [act |-> "return", cmd |-> "", ip |-> "", result |-> Ok(<<<<ip, "5555">>>>)]

\* The operation's record of the commands that returned, in order.
Logged(o, c) ==
    [o EXCEPT !.log = Append(o.log, [cmd |-> c.cmd, kind |-> c.result.kind,
                                     out |-> c.result.out])]

EnableDecision(t) ==
    EnableWirelessStep(call[t].cmd, call[t].result, op[t].device, op[t].ip)

\* enable_wireless_debugging is called: refresh_device_list.
EnableWirelessDebugging(t) ==
    /\ CanInvoke(t)
    /\ \E d \in Devices :
          Issue(t, [IdleOp EXCEPT !.name = "enable_wireless_debugging",
                                  !.start_time = now, !.device = d], "sync", "devices")
    /\ left' = [left EXCEPT ![t] = left[t] - 1]
    /\ UNCHANGED <<adb, now>>

\* A check failed or the last one passed: the function returns.
EnableWirelessReturn(t) ==
    /\ Returned(t, "enable_wireless_debugging")
    /\ EnableDecision(t).act = "return"
    /\ op' = [op EXCEPT ![t] = [Logged(op[t], call[t]) EXCEPT
                  !.pc = "done", !.wake = Never, !.result = EnableDecision(t).result]]
    /\ UNCHANGED <<adb, now, call, procs, left, tool>>

\* tcpip succeeded: wait for the device to restart.
EnableWirelessSleep(t) ==
    /\ Returned(t, "enable_wireless_debugging")
    /\ EnableDecision(t).act = "sleep"
    /\ op' = [op EXCEPT ![t] = [Logged(op[t], call[t]) EXCEPT
                  !.pc = "sleep", !.wake = now + RESTART_DELAY_MS]]
    /\ UNCHANGED <<adb, now, call, procs, left, tool>>

\* The sleep is over: probe the first interface.
EnableWirelessProbe(t) ==
    /\ IsEnable(t) /\ op[t].pc = "sleep" /\ op[t].wake = now
    /\ Issue(t, op[t], "sync", IpAddrShow[1])
    /\ UNCHANGED <<adb, now, left>>

\* A step succeeded: the next command.
EnableWirelessIssue(t) ==
    /\ Returned(t, "enable_wireless_debugging")
    /\ EnableDecision(t).act = "issue"
    /\ Issue(t, [Logged(op[t], call[t]) EXCEPT !.ip = EnableDecision(t).ip],
             "sync", EnableDecision(t).cmd)
    /\ UNCHANGED <<adb, now, left>>

\* ------------------------------------------- execute_workflow_definition
\* WorkflowStep values: name, step_type, parameters (a map from keys to
\* strings), continue_on_failure.
NoParameters == [k \in {} |-> ""]
Step(name, type, parameters, cof) ==
    [name |-> name, step_type |-> type, parameters |-> parameters,
     continue_on_failure |-> cof]

StepChoices ==
    {Step("a", "Command", [command |-> "c1"], FALSE),
     Step("a", "Command", [command |-> "c1"], TRUE),
     Step("b", "Command", NoParameters, TRUE),
     Step("b", "Batch", [device |-> "SER1", commands |-> "c1;c2"], FALSE),
     Step("b", "Conditional", [condition_step |-> "a", true_command |-> "c2"], FALSE),
     Step("b", "Conditional", [condition_step |-> "a", false_command |-> "c2"], TRUE),
     Step("b", "Conditional",
          [condition_step |-> "a", true_command |-> "c1", false_command |-> "c2"], TRUE),
     Step("a", "Parallel", [commands |-> "c1;c2"], TRUE),
     Step("b", "Batch", [commands |-> "c1;c2"], TRUE),
     Step("a", "Conditional", [true_command |-> "c1"], TRUE),
     Step("b", "Parallel", NoParameters, TRUE)}

RECURSIVE StepLists(_)
StepLists(n) ==
    IF n = 0 THEN {<<>>}
    ELSE {Append(w, st) : w \in StepLists(n - 1), st \in StepChoices}

Workflows == UNION {StepLists(n) : n \in 1..WorkflowLen}

\* commands_str.split(';').map(|s| s.trim()).collect()
Split(str) == IF str = "c1;c2" THEN <<"c1", "c2">> ELSE <<str>>

InvalidArgument(m) == ErrorOf("InvalidArgument", m)
Invalid(m) == [invalid |-> TRUE, err |-> InvalidArgument(m), kind |-> "", cmds |-> <<>>]
Runs(kind, cmds) == [invalid |-> FALSE, err |-> NoErr, kind |-> kind, cmds |-> cmds]

\* Resolve taking a step with a missing parameter for a step to skip.
ResolveLenient(st, results) ==
    LET p == st.parameters IN
    CASE st.step_type = "Command" ->
            IF "command" \notin DOMAIN p THEN Runs("skipped", <<>>)
            ELSE Runs("command", <<p["command"]>>)
      [] st.step_type = "Batch" ->
            IF "device" \notin DOMAIN p THEN Runs("skipped", <<>>)
            ELSE IF "commands" \notin DOMAIN p THEN Runs("skipped", <<>>)
            ELSE Runs("batch", [i \in 1..Len(Split(p["commands"])) |->
                                   DeviceArg(p["device"], Split(p["commands"])[i])])
      [] st.step_type = "Conditional" ->
            IF "condition_step" \notin DOMAIN p
            THEN Runs("skipped", <<>>)
            ELSE LET cs == p["condition_step"]
                     condition_success ==
                         IF cs \in DOMAIN results THEN results[cs].success ELSE FALSE
                     key == IF condition_success THEN "true_command" ELSE "false_command" IN
                 IF key \in DOMAIN p THEN Runs("command", <<p[key]>>)
                 ELSE Runs("skipped", <<>>)
      [] OTHER ->
            IF "commands" \notin DOMAIN p THEN Runs("skipped", <<>>)
            ELSE Runs("parallel", Split(p["commands"]))

\* Resolve taking a condition step without a result for a success.
ResolveUnwrapTrue(st, results) ==
    LET p == st.parameters IN
    CASE st.step_type = "Command" ->
            IF "command" \notin DOMAIN p THEN Invalid("Missing command parameter")
            ELSE Runs("command", <<p["command"]>>)
      [] st.step_type = "Batch" ->
            IF "device" \notin DOMAIN p THEN Invalid("Missing device parameter")
            ELSE IF "commands" \notin DOMAIN p THEN Invalid("Missing commands parameter")
            ELSE Runs("batch", [i \in 1..Len(Split(p["commands"])) |->
                                   DeviceArg(p["device"], Split(p["commands"])[i])])
      [] st.step_type = "Conditional" ->
            IF "condition_step" \notin DOMAIN p
            THEN Invalid("Missing condition_step parameter")
            ELSE LET cs == p["condition_step"]
                     condition_success ==
                         IF cs \in DOMAIN results THEN results[cs].success ELSE TRUE
                     key == IF condition_success THEN "true_command" ELSE "false_command" IN
                 IF key \in DOMAIN p THEN Runs("command", <<p[key]>>)
                 ELSE Runs("skipped", <<>>)
      [] OTHER ->
            IF "commands" \notin DOMAIN p THEN Invalid("Missing commands parameter")
            ELSE Runs("parallel", Split(p["commands"]))

\* What a step does, from its type and parameters: the commands it passes
\* to run_adb, or InvalidArgument for a missing parameter. The conditional
\* step looks up the result stored under the name condition_step.
Resolve(st, results) ==
    LET p == st.parameters IN
    CASE st.step_type = "Command" ->
            IF "command" \notin DOMAIN p THEN Invalid("Missing command parameter")
            ELSE Runs("command", <<p["command"]>>)
      [] st.step_type = "Batch" ->
            IF "device" \notin DOMAIN p THEN Invalid("Missing device parameter")
            ELSE IF "commands" \notin DOMAIN p THEN Invalid("Missing commands parameter")
            ELSE Runs("batch", [i \in 1..Len(Split(p["commands"])) |->
                                   DeviceArg(p["device"], Split(p["commands"])[i])])
      [] st.step_type = "Conditional" ->
            IF "condition_step" \notin DOMAIN p
            THEN Invalid("Missing condition_step parameter")
            ELSE LET cs == p["condition_step"]
                     condition_success ==
                         IF cs \in DOMAIN results THEN results[cs].success ELSE FALSE
                     key == IF condition_success THEN "true_command" ELSE "false_command" IN
                 IF key \in DOMAIN p THEN Runs("command", <<p[key]>>)
                 ELSE Runs("skipped", <<>>)
      [] OTHER ->
            IF "commands" \notin DOMAIN p THEN Invalid("Missing commands parameter")
            ELSE Runs("parallel", Split(p["commands"]))

\* StepSuccess with a parallel step succeeding when one command did.
StepSuccessAnyOk(kind, success_count, total) ==
    CASE kind = "command" -> success_count = 1
      [] kind = "batch" -> total - success_count = 0
      [] kind = "parallel" -> success_count >= 1
      [] OTHER -> TRUE

\* StepResult.success from the number of commands that succeeded.
StepSuccess(kind, success_count, total) ==
    CASE kind = "command" -> success_count = 1
      [] kind = "batch" -> total - success_count = 0
      [] kind = "parallel" -> success_count = total
      [] OTHER -> TRUE

SkippedText == <<<<"Conditional", "step", "skipped">>>>

StepResult(name, kind, success_count, total, last) ==
    [step_name |-> name, success |-> StepSuccess(kind, success_count, total),
     successful |-> success_count, total |-> total,
     output |-> CASE kind = "command" -> last.out
                  [] kind = "skipped" -> SkippedText
                  [] OTHER -> <<>>,
     error |-> IF kind = "command" /\ last.kind = "Err" THEN Display(last.err) ELSE <<>>]

\* The state of one execution: the steps, the number of steps finished,
\* the commands of the step in progress, results and success of the loop;
\* executed lists the steps run, with the outcome of each, and ran the
\* commands passed to run_adb, with the step of each.
NewRun(steps) ==
    [steps |-> steps, idx |-> 0, kind |-> "", cmds |-> <<>>, sub |-> 0,
     success_count |-> 0, results |-> [n \in {} |-> 0], success |-> TRUE,
     stopped |-> FALSE, executed |-> <<>>, ran |-> <<>>, pc |-> "loop",
     ret |-> NoResult,
     steps_executed |-> 0]

Insert(results, name, sr) ==
    [n \in DOMAIN results \cup {name} |-> IF n = name THEN sr ELSE results[n]]

\* Finish stopping at every failed step.
FinishStopOnAnyFailure(w, sr) ==
    LET st == w.steps[w.idx + 1]
        stop == ~sr.success IN
    [w EXCEPT !.idx = w.idx + 1, !.results = Insert(w.results, st.name, sr),
              !.executed = Append(w.executed, [idx |-> w.idx + 1, success |-> sr.success,
                                               result |-> sr]),
              !.success = IF stop THEN FALSE ELSE w.success,
              !.stopped = stop]

\* Finish reporting failure whenever a step failed.
FinishAnyFailureFails(w, sr) ==
    LET st == w.steps[w.idx + 1]
        stop == ~sr.success /\ ~st.continue_on_failure IN
    [w EXCEPT !.idx = w.idx + 1, !.results = Insert(w.results, st.name, sr),
              !.executed = Append(w.executed, [idx |-> w.idx + 1, success |-> sr.success,
                                               result |-> sr]),
              !.success = IF ~sr.success THEN FALSE ELSE w.success,
              !.stopped = stop]

\* The end of the loop body: results.insert, then success = false and break
\* for a failed step that does not continue on failure.
Finish(w, sr) ==
    LET st == w.steps[w.idx + 1]
        stop == ~sr.success /\ ~st.continue_on_failure IN
    [w EXCEPT !.idx = w.idx + 1, !.results = Insert(w.results, st.name, sr),
              !.executed = Append(w.executed, [idx |-> w.idx + 1, success |-> sr.success,
                                               result |-> sr]),
              !.success = IF stop THEN FALSE ELSE w.success,
              !.stopped = stop]

\* The loop from its head up to the next run_adb or to the return: a step
\* with a missing parameter returns the error, a skipped conditional step
\* finishes at once, the end of the list or a break returns WorkflowResult.
RECURSIVE Advance(_)
Advance(w) ==
    IF w.stopped \/ w.idx = Len(w.steps)
    THEN [w EXCEPT !.pc = "done", !.ret = Ok(<<>>),
                   !.steps_executed = Cardinality(DOMAIN w.results)]
    ELSE LET st == w.steps[w.idx + 1]
             r == Resolve(st, w.results) IN
         IF r.invalid THEN [w EXCEPT !.pc = "done", !.ret = Err(r.err)]
         ELSE IF r.cmds = <<>>
              THEN Advance(Finish(w, StepResult(st.name, r.kind, 0, 0, NoResult)))
         ELSE [w EXCEPT !.pc = "call", !.kind = r.kind, !.cmds = r.cmds, !.sub = 1,
                        !.success_count = 0]

IsWorkflow(t) == op[t].name = "execute_workflow_definition"

\* The execution after the loop advanced: the next command is issued or
\* the function returns.
Continue(t, o, w) ==
    IF w.pc = "call" THEN Issue(t, [o EXCEPT !.wf = w], "sync", w.cmds[w.sub])
    ELSE /\ op' = [op EXCEPT ![t] = [o EXCEPT !.wf = w, !.pc = "done", !.wake = Never,
                                               !.result = w.ret]]
         /\ UNCHANGED <<call, procs, tool>>

\* execute_workflow_definition is called.
ExecuteWorkflowDefinition(t) ==
    /\ CanInvoke(t)
    /\ \E steps \in Workflows :
          Continue(t, [IdleOp EXCEPT !.name = "execute_workflow_definition",
                                     !.start_time = now], Advance(NewRun(steps)))
    /\ left' = [left EXCEPT ![t] = left[t] - 1]
    /\ UNCHANGED <<adb, now>>

\* The step in progress after run_adb returned for its current command.
Counted(w, res) ==
    [w EXCEPT !.success_count = w.success_count + (IF res.kind = "Ok" THEN 1 ELSE 0),
              !.ran = Append(w.ran, [step |-> w.idx + 1, cmd |-> w.cmds[w.sub],
                                     ok |-> res.kind = "Ok"])]

\* A command of a batch or parallel step returned: the step's next command.
WorkflowNextCommand(t) ==
    /\ Returned(t, "execute_workflow_definition")
    /\ op[t].wf.sub < Len(op[t].wf.cmds)
    /\ Continue(t, Logged(op[t], call[t]),
                [Counted(op[t].wf, call[t].result) EXCEPT !.sub = op[t].wf.sub + 1])
    /\ UNCHANGED <<adb, now, left>>

\* The last command of a step returned: the step's result is stored and
\* the loop goes on to the next run_adb or to the return.
WorkflowStepDone(t) ==
    /\ Returned(t, "execute_workflow_definition")
    /\ op[t].wf.sub = Len(op[t].wf.cmds)
    /\ LET w == Counted(op[t].wf, call[t].result)
           sr == StepResult(w.steps[w.idx + 1].name, w.kind, w.success_count,
                            Len(w.cmds), call[t].result) IN
          Continue(t, Logged(op[t], call[t]), Advance(Finish(w, sr)))
    /\ UNCHANGED <<adb, now, left>>

\* ---------------------------------------------------- parse_network_stats
\* Decimal numerals, and str::parse::<u64>().unwrap_or(0) on a token.
Numerals == <<"1", "2", "3", "4", "5", "6", "7", "8", "9", "10", "11", "12", "13",
              "14", "15", "16">>
ParseOrZero(tok) ==
    IF \E i \in 1..Len(Numerals) : Numerals[i] = tok
    THEN CHOOSE i \in 1..Len(Numerals) : Numerals[i] = tok
    ELSE 0

\* Lines of /proc/net/dev: the interface label, then up to MaxTokens - 1
\* further tokens, all numerals or all unparsable.
NetLabels == {"eth0:", "wlan0:", "lo:"}
NetLines ==
    {<<l>> \o [i \in 1..(n - 1) |-> IF numeric THEN Numerals[i] ELSE "x"] :
        l \in NetLabels, n \in 1..MaxTokens, numeric \in BOOLEAN}
NetOutputs == {<<a>> : a \in NetLines} \cup {<<a, b>> : a \in {<<"lo:", "1">>}, b \in NetLines}

NoStats == [rx_bytes |-> 0, tx_bytes |-> 0, rx_packets |-> 0, tx_packets |-> 0]

\* line.contains("eth0:") || line.contains("wlan0:")
IsStatsLine(line) == Contains(<<line>>, "eth0:") \/ Contains(<<line>>, "wlan0:")

\* parts[i] of a Vec: the token, or a panic when i is not below parts.len().
Index(parts, i) ==
    IF i < Len(parts) THEN [panic |-> FALSE, tok |-> parts[i + 1]]
    ELSE [panic |-> TRUE, tok |-> ""]

\* parse_network_stats: the first eth0/wlan0 line; with at least 10 tokens
\* the counters are read at positions 1, 2, 9 and 10. `reads` are the
\* positions indexed, `len` the number of tokens of the line.
ParseNetworkStats(output) ==
    LET hits == {i \in 1..Len(output) : IsStatsLine(output[i])} IN
    IF hits = {} THEN [panicked |-> FALSE, stats |-> NoStats, reads |-> {}, len |-> 0]
    ELSE LET parts == output[Min(hits)] IN
         IF Len(parts) >= 10
         THEN IF \E i \in {1, 2, 9, 10} : Index(parts, i).panic
              THEN [panicked |-> TRUE, stats |-> NoStats, reads |-> {1, 2, 9, 10},
                    len |-> Len(parts)]
              ELSE [panicked |-> FALSE,
                    stats |-> [rx_bytes |-> ParseOrZero(Index(parts, 1).tok),
                               rx_packets |-> ParseOrZero(Index(parts, 2).tok),
                               tx_bytes |-> ParseOrZero(Index(parts, 9).tok),
                               tx_packets |-> ParseOrZero(Index(parts, 10).tok)],
                    reads |-> {1, 2, 9, 10}, len |-> Len(parts)]
         ELSE [panicked |-> FALSE, stats |-> NoStats, reads |-> {}, len |-> Len(parts)]

\* parse_network_stats is applied to the text of /proc/net/dev.
ParseNetworkStatsCall(t) ==
    /\ CanInvoke(t)
    /\ \E output \in NetOutputs :
          op' = [op EXCEPT ![t] =
                    [IdleOp EXCEPT !.name = "parse_network_stats", !.pc = "done",
                                   !.net = [output |-> output] @@ ParseNetworkStats(output)]]
    /\ left' = [left EXCEPT ![t] = left[t] - 1]
    /\ UNCHANGED <<adb, now, call, procs, tool>>

Pending == ({call[t].wake : t \in Tasks} \cup {op[t].wake : t \in Tasks}) \ {Never}

\* Time passes until the earliest pending event.
Tick ==
    /\ Pending # {}
    /\ \A w \in Pending : w > now
    /\ now' = Min(Pending)
    /\ UNCHANGED <<adb, call, procs, op, left, tool>>

Next ==
    \/ \E t \in Tasks : RunAdb(t)
    \/ \E t \in Tasks : RunAdbAsync(t)
    \/ \E t \in Tasks : AttemptOk(t)
    \/ \E t \in Tasks : AttemptRetry(t)
    \/ \E t \in Tasks : AttemptGiveUp(t)
    \/ \E t \in Tasks : SleepEnd(t)
    \/ Tick

Spec == Init /\ [][Next]_vars

\* Two asynchronous calls on the same instance, one per task.
InitConc ==
    /\ \E to \in Timeouts : adb = NewADB(to)
    /\ now = 0
    /\ call = [t \in Tasks |-> IdleCall]
    /\ procs = [t \in Tasks |-> {}]
    /\ op = [t \in Tasks |-> IdleOp]
    /\ left = [t \in Tasks |-> 1]
    /\ tool = FreeTool

NextConc ==
    \/ \E t \in Tasks : RunAdbAsync(t)
    \/ \E t \in Tasks : AttemptOk(t)
    \/ \E t \in Tasks : AttemptRetry(t)
    \/ \E t \in Tasks : AttemptGiveUp(t)
    \/ \E t \in Tasks : SleepEnd(t)
    \/ Tick

SpecConc == InitConc /\ [][NextConc]_vars

\* One task runs one operation built on run_adb.
InitOps ==
    /\ \E to \in Timeouts : adb = NewADB(to)
    /\ now = 0
    /\ call = [t \in Tasks |-> IdleCall]
    /\ procs = [t \in Tasks |-> {}]
    /\ op = [t \in Tasks |-> IdleOp]
    /\ left = [t \in Tasks |-> IF t = "t1" THEN 1 ELSE 0]
    /\ tool = FreeTool

NextOps ==
    \/ \E t \in Tasks : ConnectWireless(t)
    \/ \E t \in Tasks : ConnectWirelessReturn(t)
    \/ \E t \in Tasks : ConnectWirelessSleep(t)
    \/ \E t \in Tasks : ConnectWirelessNext(t)
    \/ \E t \in Tasks : ConnectWirelessAsync(t)
    \/ \E t \in Tasks : ConnectWirelessAsyncReturn(t)
    \/ \E t \in Tasks : WaitForDevice(t)
    \/ \E t \in Tasks : WaitForDeviceAsync(t)
    \/ \E t \in Tasks : WaitForDevicePolled(t)
    \/ \E t \in Tasks : WaitForDeviceNext(t)
    \/ \E t \in Tasks : AttemptOk(t)
    \/ \E t \in Tasks : AttemptRetry(t)
    \/ \E t \in Tasks : AttemptGiveUp(t)
    \/ \E t \in Tasks : SleepEnd(t)
    \/ Tick

SpecOps == InitOps /\ [][NextOps]_vars

\* One task calls enable_wireless_debugging once.
NextWireless ==
    \/ \E t \in Tasks : EnableWirelessDebugging(t)
    \/ \E t \in Tasks : EnableWirelessReturn(t)
    \/ \E t \in Tasks : EnableWirelessSleep(t)
    \/ \E t \in Tasks : EnableWirelessProbe(t)
    \/ \E t \in Tasks : EnableWirelessIssue(t)
    \/ \E t \in Tasks : AttemptOk(t)
    \/ \E t \in Tasks : AttemptRetry(t)
    \/ \E t \in Tasks : AttemptGiveUp(t)
    \/ \E t \in Tasks : SleepEnd(t)
    \/ Tick

SpecWireless == InitOps /\ [][NextWireless]_vars

\* One task calls execute_workflow_definition once.
NextWorkflow ==
    \/ \E t \in Tasks : ExecuteWorkflowDefinition(t)
    \/ \E t \in Tasks : WorkflowNextCommand(t)
    \/ \E t \in Tasks : WorkflowStepDone(t)
    \/ \E t \in Tasks : AttemptOk(t)
    \/ \E t \in Tasks : AttemptRetry(t)
    \/ \E t \in Tasks : AttemptGiveUp(t)
    \/ \E t \in Tasks : SleepEnd(t)
    \/ Tick

SpecWorkflow == InitOps /\ [][NextWorkflow]_vars

\* One task parses one text.
NextParse == \E t \in Tasks : ParseNetworkStatsCall(t)

SpecParse == InitOps /\ [][NextParse]_vars

\* Scripts of tool responses: what the successive invocations of the binary
\* by one caller do.
RECURSIVE Scripts(_)
Scripts(n) ==
    IF n = 0 THEN {<<>>}
    ELSE {Append(s, b) : s \in Scripts(n - 1), b \in ProcBehaviours("connect")}

\* connect_wireless (task t1) and connect_wireless_async (task t2) are each
\* called once and meet the same sequence of tool responses.
InitPair ==
    /\ \E to \in Timeouts : adb = NewADB(to)
    /\ now = 0
    /\ call = [t \in Tasks |-> IdleCall]
    /\ procs = [t \in Tasks |-> {}]
    /\ op = [t \in Tasks |-> IdleOp]
    /\ left = [t \in Tasks |-> 1]
    /\ \E s \in Scripts(ScriptLen) : tool = [script |-> s, pos |-> [t \in Tasks |-> 0]]

NextPair ==
    \/ ConnectWireless("t1")
    \/ ConnectWirelessAsync("t2")
    \/ \E t \in Tasks : ConnectWirelessReturn(t)
    \/ \E t \in Tasks : ConnectWirelessSleep(t)
    \/ \E t \in Tasks : ConnectWirelessNext(t)
    \/ \E t \in Tasks : ConnectWirelessAsyncReturn(t)
    \/ \E t \in Tasks : AttemptOk(t)
    \/ \E t \in Tasks : AttemptRetry(t)
    \/ \E t \in Tasks : AttemptGiveUp(t)
    \/ \E t \in Tasks : SleepEnd(t)
    \/ Tick

SpecPair == InitPair /\ [][NextPair]_vars

\* Fairness: the clock advances and a due event of a call is handled (the
\* thread runs, the cooperative scheduler polls a ready task).
FairSpec ==
    /\ Init /\ [][Next]_vars
    /\ WF_vars(Tick)
    /\ \A t \in Tasks :
          WF_vars(AttemptOk(t) \/ AttemptRetry(t) \/ AttemptGiveUp(t) \/ SleepEnd(t))

\* ------------------------------------------------------------------ claims
IsSuffix(s, m) ==
    /\ Len(s) <= Len(m)
    /\ \A i \in 1..Len(s) : s[i] = m[Len(m) - Len(s) + i]

\* The error the last attempt of a returned call produced, read off the
\* process: a spawn failure and a timeout are io errors, an unsuccessful
\* exit is CommandFailed(stderr).
TimedOut(c) ==
    c.mode = "async" /\ (c.cur.kind = "hang" \/ (c.cur.kind # "spawn_error" /\ c.cur.dur > adb.timeout))
LastAttemptError(c) ==
    IF c.cur.kind = "spawn_error" THEN IOError("spawn failed")
    ELSE IF TimedOut(c) THEN IOError("Command timed out")
    ELSE CommandFailed(<<c.cur.errout>>)
ObservedSuccess(c) == c.cur.kind = "exit_ok" /\ ~TimedOut(c)

\* C1: when every attempt of a call fails, the call returns an error, and
\* that error is the one the last attempt produced: its category, and its
\* text at the end of the returned message.
C1_LastErrorReturned ==
    \A t \in Tasks :
        (call[t].pc = "ret" /\ ~ObservedSuccess(call[t])) =>
            /\ call[t].result.kind = "Err"
            /\ call[t].result.err.cat = LastAttemptError(call[t]).cat
            /\ IsSuffix(Display(LastAttemptError(call[t])), call[t].result.err.msg)

\* The number of backoff sleeps whose shortest possible lengths fit into the
\* budget, the intervals growing from `cur`.
RECURSIVE SleepsWithin(_, _, _)
SleepsWithin(cur, spent, budget) ==
    LET shortest == cur - cur \div 2 IN
    IF spent + shortest > budget THEN 0
    ELSE 1 + SleepsWithin(IncrementCurrentInterval(cur), spent + shortest, budget)

AttemptBound(timeout) == 1 + SleepsWithin(INITIAL_INTERVAL_MILLIS, 0, timeout)

\* C2: there is a number N, fixed by the timeout the instance was
\* constructed with, such that no call makes more than N attempts, whatever
\* the attempts' durations.
C2_AttemptsBounded ==
    \A t \in Tasks : call[t].attempts <= AttemptBound(adb.timeout)

C2_Witness ==
    \E t \in Tasks :
        /\ call[t].pc = "ret" /\ call[t].result.kind = "Err"
        /\ call[t].attempts = AttemptBound(adb.timeout) /\ call[t].attempts >= 3

\* C3: a call returns Ok exactly with the standard output of the attempt
\* that saw its process exit successfully, a sleep before a further attempt
\* follows only a failed attempt, and a returned call spawns nothing more.
C3_State ==
    \A t \in Tasks :
        /\ (call[t].pc = "ret" /\ ObservedSuccess(call[t])) =>
               call[t].result = Ok(call[t].cur.out)
        /\ (call[t].pc = "ret" /\ call[t].result.kind = "Ok") =>
               ObservedSuccess(call[t])
        /\ call[t].pc = "sleep" => ~ObservedSuccess(call[t])
C3_Step ==
    \A t \in Tasks :
        (call[t].pc = "ret" /\ call'[t] # call[t]) =>
            (call'[t].attempts = 1 /\ call'[t].t0 = now /\ left'[t] = left[t] - 1)
C3_FirstSuccessReturned == [](C3_State) /\ [][C3_Step]_vars

C3_Witness ==
    \E t \in Tasks :
        call[t].pc = "ret" /\ call[t].result.kind = "Ok" /\ call[t].attempts >= 2

\* C4: every attempt, synchronous or asynchronous, ends when the process
\* completes or the configured timeout elapses, whichever comes first: no
\* attempt waits longer than the timeout.
C4_AttemptWithinTimeout ==
    \A t \in Tasks :
        call[t].pc = "wait" =>
            /\ call[t].wake # Never
            /\ call[t].wake - call[t].astart <= adb.timeout
            /\ now - call[t].astart <= adb.timeout

\* C5: at most one process spawned by a call is alive at any time.
C5_OneProcessAlive ==
    \A t \in Tasks : Cardinality({p \in procs[t] : Alive(p)}) <= 1

C5_Witness ==
    \E t \in Tasks :
        /\ call[t].attempts >= 2 /\ call[t].pc = "wait"
        /\ Cardinality(procs[t]) >= 2
        /\ \E p \in procs[t] : Alive(p)

\* C6: every run_adb_async call eventually returns, also when its process
\* never exits.
C6_AsyncReturns ==
    \A t \in Tasks :
        (call[t].mode = "async" /\ call[t].pc \in {"wait", "sleep"}) ~> (call[t].pc = "ret")

C6_Witness ==
    \E t \in Tasks :
        call[t].mode = "async" /\ call[t].pc = "ret" /\ call[t].cur.kind = "hang"

\* C7: when the attempts of a run_adb_async call end by timeout, the error
\* returned is not of the category returned for an unsuccessful exit.
C7_TimeoutCategoryApart ==
    \A t \in Tasks :
        (call[t].pc = "ret" /\ TimedOut(call[t])) =>
            /\ call[t].result.kind = "Err"
            /\ call[t].result.err.cat # CommandFailed(<<>>).cat

\* C8 as stated: every operation issues its command at most once per call.
C8_IssuedOnce ==
    \A t \in Tasks : op[t].issued <= 1

\* C8, amended: no operation re-issues its command after run_adb returned an
\* error; connect_wireless_async issues once, connect_wireless at most
\* MAX_RETRIES times, wait_for_device(_async) once per started second of its
\* timeout.
C8_ReissueOnlyAfterOk ==
    \A t \in Tasks :
        /\ op[t].reissued_after \subseteq {"Ok"}
        /\ op[t].name = "connect_wireless_async" => op[t].issued <= 1
        /\ op[t].name = "connect_wireless" => op[t].issued <= MAX_RETRIES
        /\ IsWait(t) => op[t].issued <= (op[t].timeout + POLL_DELAY_MS - 1) \div POLL_DELAY_MS

C8_Witness ==
    \E t \in Tasks :
        /\ op[t].name = "connect_wireless" /\ op[t].pc = "done"
        /\ op[t].issued = MAX_RETRIES

\* C9: no step changes the instance's configuration, and every call starts
\* its first attempt with the backoff in its initial state: the initial
\* interval, the elapsed time counted from the start of this call.
C9_FreshBackoff ==
    \A t \in Tasks :
        (call[t].pc = "wait" /\ call[t].attempts = 1) =>
            call[t].bo = NewBackoff(adb.timeout, call[t].astart)
C9_Stateless == [](C9_FreshBackoff) /\ [][adb' = adb]_vars

C9_Witness ==
    \E t \in Tasks :
        /\ left[t] = MaxCalls - 2
        /\ call[t].pc = "wait" /\ call[t].attempts = 1 /\ call[t].astart > 0

\* The current interval of a backoff after k calls of next_backoff.
RECURSIVE IntervalAfter(_)
IntervalAfter(k) ==
    IF k = 0 THEN INITIAL_INTERVAL_MILLIS ELSE IncrementCurrentInterval(IntervalAfter(k - 1))

AttemptEnd(c) == c.astart + (IF TimedOut(c) THEN adb.timeout ELSE c.cur.dur)

\* C10: what a call does is fixed by its own attempts: an attempt ends when
\* its own process exits or its own timeout fires, a sleep is taken exactly
\* when the time since this call began plus the interval fits the budget,
\* an error is returned exactly when it does not, and a due event of a call
\* can be handled whatever the other calls are doing.
C10_OwnSchedule ==
    \A t \in Tasks :
        /\ call[t].pc = "wait" => (call[t].wake = AttemptEnd(call[t]) /\ call[t].wake >= now)
        /\ call[t].pc = "sleep" =>
              /\ call[t].wake >= now
              /\ call[t].wake - call[t].t0 <= adb.timeout
              /\ \E r \in 0..RandomSteps :
                    call[t].iv = RandomizedInterval(IntervalAfter(call[t].attempts - 1), r)
        /\ (call[t].pc = "ret" /\ call[t].result.kind = "Err") =>
              \E r \in 0..RandomSteps :
                  (AttemptEnd(call[t]) - call[t].t0)
                      + RandomizedInterval(IntervalAfter(call[t].attempts - 1), r) > adb.timeout
        /\ (call[t].pc = "wait" /\ Due(t)) =>
              ENABLED (AttemptOk(t) \/ AttemptRetry(t) \/ AttemptGiveUp(t))
        /\ (call[t].pc = "sleep" /\ Due(t)) => ENABLED SleepEnd(t)

C10_Witness ==
    \E t \in Tasks, u \in Tasks :
        /\ t # u
        /\ call[t].pc = "ret" /\ call[t].attempts >= 2 /\ call[t].t0 > 0
        /\ call[u].pc \in {"wait", "sleep"} /\ call[u].t0 < call[t].t0

IsConnect(t) == op[t].name = "connect_wireless"
Reissued(t) == op'[t].issued = op[t].issued + 1 /\ op[t].issued >= 1

\* C11: connect_wireless issues at most MAX_RETRIES connect commands; it
\* returns Ok right after the first attempt whose output contains
\* "connected", and ConnectionRetry only after exactly MAX_RETRIES attempts
\* none of whose outputs contained it.
C11_State ==
    \A t \in Tasks : IsConnect(t) =>
        /\ op[t].issued <= MAX_RETRIES /\ op[t].issued = op[t].attempt
        /\ (op[t].pc = "done" /\ op[t].result.kind = "Ok") =>
              (call[t].result.kind = "Ok" /\ Contains(call[t].result.out, "connected"))
        /\ op[t].pc = "sleep" =>
              (call[t].result.kind = "Ok" /\ ~Contains(call[t].result.out, "connected"))
        /\ (op[t].pc = "done" /\ op[t].result.err.cat = "ConnectionRetry") =>
              /\ op[t].issued = MAX_RETRIES
              /\ call[t].result.kind = "Ok" /\ ~Contains(call[t].result.out, "connected")
C11_Step ==
    \A t \in Tasks : (IsConnect(t) /\ Reissued(t)) =>
        (call[t].result.kind = "Ok" /\ ~Contains(call[t].result.out, "connected"))
C11_ConnectAttempts == [](C11_State) /\ [][C11_Step]_vars

C11_Witness ==
    \E t \in Tasks :
        /\ IsConnect(t) /\ op[t].pc = "done"
        /\ op[t].result.err.cat = "ConnectionRetry" /\ op[t].attempt = MAX_RETRIES

\* C12: no connect attempt of connect_wireless starts more than
\* CONNECTION_TIMEOUT_MS after the call began.
C12_NoLateAttempt ==
    \A t \in Tasks :
        (IsConnect(t) /\ op[t].pc = "call") =>
            call[t].t0 - op[t].start_time <= CONNECTION_TIMEOUT_MS

\* C13: in connect_wireless an error of run_adb ends the call at once with
\* that error; no attempt follows it and no other error replaces it.
C13_State ==
    \A t \in Tasks : IsConnect(t) =>
        /\ (op[t].pc = "done" /\ call[t].result.kind = "Err") =>
              op[t].result = Err(call[t].result.err)
        /\ op[t].pc = "sleep" => call[t].result.kind = "Ok"
C13_Step ==
    \A t \in Tasks :
        (IsConnect(t) /\ op[t].pc = "call" /\ call[t].pc = "ret"
            /\ call[t].result.kind = "Err" /\ op'[t] # op[t]) =>
                (op'[t].pc = "done" /\ op'[t].issued = op[t].issued /\ call'[t] = call[t])
C13_ErrorEndsConnect == [](C13_State) /\ [][C13_Step]_vars

C13_Witness ==
    \E t \in Tasks :
        /\ IsConnect(t) /\ op[t].pc = "done" /\ op[t].issued >= 2
        /\ call[t].result.kind = "Err" /\ op[t].result.kind = "Err"

\* C14: for every sequence of tool responses connect_wireless_async returns
\* Ok exactly when connect_wireless returns Ok.
C14_SameOutcome ==
    (/\ op["t1"].name = "connect_wireless" /\ op["t1"].pc = "done"
     /\ op["t2"].name = "connect_wireless_async" /\ op["t2"].pc = "done") =>
        (op["t1"].result.kind = "Ok" <=> op["t2"].result.kind = "Ok")

Listed(t) == call[t].result.kind = "Ok" /\ op[t].device \in Serials(call[t].result.out)

\* C15: wait_for_device(_async) starts a poll only while the elapsed time is
\* below the timeout, returns Ok only when a fetched device list contains
\* the serial, and returns Timeout only when the elapsed time has reached
\* the timeout and no poll listed the serial; with a zero timeout it
\* returns Timeout without polling.
C15_State ==
    \A t \in Tasks : IsWait(t) =>
        /\ op[t].pc = "call" => call[t].t0 - op[t].start_time < op[t].timeout
        /\ (op[t].pc = "done" /\ op[t].result.kind = "Ok") =>
              (op[t].issued >= 1 /\ Listed(t))
        /\ (op[t].pc = "done" /\ op[t].result.err.cat = "Timeout") =>
              /\ now - op[t].start_time >= op[t].timeout
              /\ op[t].issued = 0 \/ (call[t].result.kind = "Ok" /\ ~Listed(t))
        /\ op[t].timeout = 0 =>
              (op[t].issued = 0 /\ op[t].pc = "done" /\ op[t].result = Err(TimeoutError))
C15_Step ==
    \A t \in Tasks : (IsWait(t) /\ Reissued(t)) =>
        (call[t].result.kind = "Ok" /\ ~Listed(t))
C15_DeadlineBeforePoll == [](C15_State) /\ [][C15_Step]_vars

C15_Witness ==
    \E t \in Tasks :
        /\ IsWait(t) /\ op[t].pc = "done" /\ op[t].issued >= 2
        /\ op[t].result.err.cat = "Timeout"

\* C16: in wait_for_device a failure of the device-list command makes the
\* call return that error at once; no poll follows it.
C16_State ==
    \A t \in Tasks : IsWait(t) =>
        /\ (op[t].pc = "done" /\ call[t].result.kind = "Err") =>
              op[t].result = Err(call[t].result.err)
        /\ op[t].pc = "sleep" => call[t].result.kind = "Ok"
C16_Step ==
    \A t \in Tasks :
        (IsWait(t) /\ op[t].pc = "call" /\ call[t].pc = "ret"
            /\ call[t].result.kind = "Err" /\ op'[t] # op[t]) =>
                (op'[t].pc = "done" /\ op'[t].issued = op[t].issued /\ call'[t] = call[t])
C16_PollErrorEndsWait == [](C16_State) /\ [][C16_Step]_vars

C16_Witness ==
    \E t \in Tasks :
        /\ IsWait(t) /\ op[t].pc = "done" /\ op[t].issued >= 2
        /\ call[t].result.kind = "Err" /\ op[t].result.err.cat = "CommandFailed"

TcpipIssued(t) ==
    \/ op[t].pc = "call" /\ call[t].cmd = TcpipCmd
    \/ \E i \in 1..Len(op[t].log) : op[t].log[i].cmd = TcpipCmd

DeviceListed(e, device) ==
    e.cmd = "devices" /\ e.kind = "Ok" /\ device \in Serials(e.out)

\* C17: enable_wireless_debugging fetches the device list first; when the
\* serial is absent from it the call returns DeviceNotFound and issues no
\* tcpip command; tcpip is issued only after the serial was found listed.
C17_DeviceCheckedFirst ==
    \A t \in Tasks : IsEnable(t) =>
        LET log == op[t].log IN
        /\ (op[t].pc = "call" /\ log = <<>>) => call[t].cmd = "devices"
        /\ TcpipIssued(t) => (log # <<>> /\ DeviceListed(log[1], op[t].device))
        /\ (log # <<>> /\ log[1].kind = "Ok" /\ op[t].device \notin Serials(log[1].out)) =>
              /\ op[t].pc = "done" /\ op[t].issued = 1
              /\ op[t].result = Err(ErrorOf("DeviceNotFound", op[t].device))
        /\ (op[t].pc = "done" /\ op[t].result.err.cat = "DeviceNotFound") =>
              (op[t].issued = 1 /\ ~TcpipIssued(t))

C17_Witness ==
    \E t \in Tasks :
        /\ IsEnable(t) /\ op[t].pc = "done"
        /\ op[t].result.err.cat = "DeviceNotFound"
        /\ op[t].log[1].kind = "Ok"

\* A step of enable_wireless_debugging succeeded.
Passed(e, device) ==
    /\ e.kind = "Ok"
    /\ CASE e.cmd = "devices" -> device \in Serials(e.out)
         [] e.cmd = TcpipCmd -> ContainsPhrase(e.out, TcpModePhrase)
         [] e.cmd \in IpAddrCmds -> FindAddr(e.out).some
         [] OTHER -> Contains(e.out, "5555")

\* The commands that may follow a step: none after a failed step, the next
\* interface after a probe that found no address.
Following(e, device) ==
    CASE e.cmd = "devices" -> IF Passed(e, device) THEN {TcpipCmd} ELSE {}
      [] e.cmd = TcpipCmd -> IF Passed(e, device) THEN {IpAddrShow[1]} ELSE {}
      [] e.cmd \in IpAddrCmds ->
            IF Passed(e, device) THEN {GetpropCmd}
            ELSE {IpAddrShow[i] : i \in {InterfaceOf(e.cmd) + 1} \cap 1..Len(IpAddrShow)}
      [] OTHER -> {}

\* C18: enable_wireless_debugging returns Ok((ip, 5555)) only after the
\* tcpip output contained "restarting in TCP mode", an address was found on
\* the first of wlan0, eth0, wifi0 that yields one (probed in that order, no
\* probe after the first hit) and the port property contained 5555; a
\* failed step returns an error and no later step runs.
C18_StepsInOrder ==
    \A t \in Tasks : IsEnable(t) =>
        LET log == op[t].log
            n == Len(log)
            dev == op[t].device IN
        /\ \A i \in 1..(n - 1) : log[i + 1].cmd \in Following(log[i], dev)
        /\ (n > 0 /\ op[t].pc = "call") => call[t].cmd \in Following(log[n], dev)
        /\ (n > 0 /\ Following(log[n], dev) = {}) => op[t].pc = "done"
        /\ n > 0 => log[1].cmd = "devices"
        /\ op[t].pc = "done" =>
              /\ n = op[t].issued
              /\ op[t].result.kind = "Ok" =>
                    /\ log[n].cmd = GetpropCmd /\ Passed(log[n], dev)
                    /\ \A i \in 1..n : log[i].cmd \notin IpAddrCmds => Passed(log[i], dev)
                    /\ op[t].result = Ok(<<<<FindAddr(log[n - 1].out).addr, "5555">>>>)
              /\ op[t].result.kind = "Err" =>
                    /\ Following(log[n], dev) = {}
                    /\ ~(log[n].cmd = GetpropCmd /\ Passed(log[n], dev))

C18_Witness ==
    \E t \in Tasks :
        /\ IsEnable(t) /\ op[t].pc = "done" /\ op[t].result.kind = "Ok"
        /\ Len(op[t].log) = 6

\* The executed step at position i failed and does not continue on failure.
Stopper(w, i) ==
    ~w.executed[i].success /\ ~w.steps[w.executed[i].idx].continue_on_failure

Completed(t) == IsWorkflow(t) /\ op[t].pc = "done" /\ op[t].result.kind = "Ok"

\* C19: execute_workflow_definition executes the steps in list order; no
\* step after the first failed step with continue_on_failure = false is
\* executed, and a failed step with continue_on_failure = true does not
\* stop the execution.
C19_StepsInListOrder ==
    \A t \in Tasks : IsWorkflow(t) =>
        LET w == op[t].wf
            n == Len(w.executed) IN
        /\ \A i \in 1..n : w.executed[i].idx = i
        /\ \A i \in 1..(n - 1) : ~Stopper(w, i)
        /\ op[t].pc = "call" => (n < Len(w.steps) /\ (n > 0 => ~Stopper(w, n)))
        /\ (Completed(t) /\ n < Len(w.steps)) => (n > 0 /\ Stopper(w, n))

C19_Witness ==
    \E t \in Tasks :
        /\ Completed(t)
        /\ Len(op[t].wf.executed) = 2
        /\ ~op[t].wf.executed[1].success
        /\ op[t].wf.steps[1].continue_on_failure

\* C20: the success of a WorkflowResult is false exactly when the execution
\* stopped at a failed step whose continue_on_failure is false.
C20_SuccessUnlessStopped ==
    \A t \in Tasks : Completed(t) =>
        LET w == op[t].wf
            n == Len(w.executed) IN
        w.success = ~(n > 0 /\ Stopper(w, n))

C20_Witness ==
    \E t \in Tasks :
        /\ Completed(t) /\ op[t].wf.success
        /\ \E i \in 1..Len(op[t].wf.executed) : ~op[t].wf.executed[i].success

\* C21: in a WorkflowResult steps_executed is the number of steps that were
\* executed and results holds the result of every executed step, also when
\* two steps have the same name.
C21_EveryStepCounted ==
    \A t \in Tasks : Completed(t) =>
        LET w == op[t].wf IN
        /\ w.steps_executed = Len(w.executed)
        /\ \A i \in 1..Len(w.executed) :
              /\ w.steps[i].name \in DOMAIN w.results
              /\ w.results[w.steps[i].name] = w.executed[i].result

\* The step lacks a parameter its type requires.
Lacking(st) ==
    LET keys == DOMAIN st.parameters IN
    CASE st.step_type = "Command" -> "command" \notin keys
      [] st.step_type = "Batch" -> "device" \notin keys \/ "commands" \notin keys
      [] st.step_type = "Conditional" -> "condition_step" \notin keys
      [] OTHER -> "commands" \notin keys

\* The commands step k passed to run_adb, in the order they ran.
RanBy(w, k) ==
    LET OfStep(e) == e.step = k IN SelectSeq(w.ran, OfStep)
CmdsRanBy(w, k) == [i \in 1..Len(RanBy(w, k)) |-> RanBy(w, k)[i].cmd]

\* C22: when a step lacks a required parameter the call returns the
\* InvalidArgument error and no WorkflowResult; that step and the later ones
\* run no command, whatever the step's continue_on_failure.
C22_MissingParameter ==
    \A t \in Tasks : IsWorkflow(t) =>
        LET w == op[t].wf
            n == Len(w.executed) IN
        /\ \A i \in 1..n : ~Lacking(w.steps[i])
        /\ op[t].pc = "call" => ~Lacking(w.steps[n + 1])
        /\ \A i \in 1..Len(w.ran) : ~Lacking(w.steps[w.ran[i].step])
        /\ op[t].pc = "done" =>
              /\ op[t].result.kind = "Err" <=>
                    (/\ n < Len(w.steps) /\ Lacking(w.steps[n + 1])
                     /\ ~(n > 0 /\ Stopper(w, n)))
              /\ op[t].result.kind = "Err" =>
                    /\ op[t].result.err.cat = "InvalidArgument"
                    /\ op[t].result = Err(op[t].result.err)
                    /\ \A i \in 1..Len(w.ran) : w.ran[i].step <= n

C22_Witness ==
    \E t \in Tasks :
        /\ IsWorkflow(t) /\ op[t].pc = "done"
        /\ op[t].result.err.cat = "InvalidArgument"
        /\ Len(op[t].wf.executed) = 1
        /\ op[t].wf.steps[2].continue_on_failure

\* The result recorded under the name cs when step k starts is a success:
\* the last step of that name executed before k succeeded.
ConditionHolds(w, cs, k) ==
    \E i \in 1..(k - 1) :
        /\ w.steps[i].name = cs /\ w.executed[i].success
        /\ \A j \in (i + 1)..(k - 1) : w.steps[j].name # cs

\* The command a conditional step selects, as a list of none or one.
Selected(w, k) ==
    LET p == w.steps[k].parameters
        key == IF ConditionHolds(w, p["condition_step"], k)
               THEN "true_command" ELSE "false_command" IN
    IF key \in DOMAIN p THEN <<p[key]>> ELSE <<>>

\* C23: a Conditional step runs its true_command exactly when a step named
\* by condition_step was executed before it in the run and the recorded
\* result is a success, otherwise its false_command; when the selected
\* command is absent it runs nothing and is recorded as a successful,
\* skipped step.
C23_ConditionalSelects ==
    \A t \in Tasks : IsWorkflow(t) =>
        LET w == op[t].wf
            n == Len(w.executed) IN
        /\ \A k \in 1..n : w.steps[k].step_type = "Conditional" =>
              /\ CmdsRanBy(w, k) = Selected(w, k)
              /\ Selected(w, k) = <<>> =>
                    /\ w.executed[k].success
                    /\ w.executed[k].result.output = SkippedText
              /\ Selected(w, k) # <<>> => w.executed[k].success = RanBy(w, k)[1].ok
        /\ (op[t].pc = "call" /\ w.steps[n + 1].step_type = "Conditional") =>
              <<call[t].cmd>> = Selected(w, n + 1)

C23_Witness ==
    \E t \in Tasks :
        /\ IsWorkflow(t)
        /\ \E k \in 1..Len(op[t].wf.executed) :
              /\ op[t].wf.steps[k].step_type = "Conditional"
              /\ "false_command" \in DOMAIN op[t].wf.steps[k].parameters
              /\ ConditionHolds(op[t].wf, "a", k)
              /\ CmdsRanBy(op[t].wf, k) = <<"c1">>

\* C24: a Parallel step runs its commands one at a time in the listed
\* order, runs every command even after one failed, and succeeds exactly
\* when every command succeeded.
C24_ParallelIsSequential ==
    \A t \in Tasks : IsWorkflow(t) =>
        LET w == op[t].wf
            n == Len(w.executed) IN
        /\ Cardinality({p \in procs[t] : Alive(p)}) <= 1
        /\ Len(op[t].log) = Len(w.ran)
        /\ \A i \in 1..Len(w.ran) :
              /\ op[t].log[i].cmd = w.ran[i].cmd
              /\ (op[t].log[i].kind = "Ok") = w.ran[i].ok
        /\ \A k \in 1..n : w.steps[k].step_type = "Parallel" =>
              /\ CmdsRanBy(w, k) = Split(w.steps[k].parameters["commands"])
              /\ w.executed[k].success = (\A i \in 1..Len(RanBy(w, k)) : RanBy(w, k)[i].ok)
        /\ (op[t].pc = "call" /\ w.steps[n + 1].step_type = "Parallel") =>
              LET cmds == Split(w.steps[n + 1].parameters["commands"])
                  ran == Len(RanBy(w, n + 1)) IN
              /\ ran < Len(cmds)
              /\ CmdsRanBy(w, n + 1) = SubSeq(cmds, 1, ran)
              /\ call[t].cmd = cmds[ran + 1]

C24_Witness ==
    \E t \in Tasks :
        /\ IsWorkflow(t)
        /\ \E k \in 1..Len(op[t].wf.executed) :
              /\ op[t].wf.steps[k].step_type = "Parallel"
              /\ Len(RanBy(op[t].wf, k)) = 2
              /\ ~RanBy(op[t].wf, k)[1].ok

\* C25: parse_network_stats never fails: on an eth0/wlan0 line with any
\* number of tokens it reads only positions that exist on the line, and
\* otherwise leaves the counters at 0.
C25_NeverPastLastToken ==
    \A t \in Tasks : op[t].name = "parse_network_stats" =>
        /\ ~op[t].net.panicked
        /\ \A i \in op[t].net.reads : i < op[t].net.len
        /\ op[t].net.reads = {} => op[t].net.stats = NoStats

TypeOK ==
    /\ now \in Nat
    /\ \A t \in Tasks : call[t].pc \in {"idle", "wait", "sleep", "ret"}

=============================================================================
